---- MODULE Spec2Model ----
(***************************************************************************)
(* Model of src/main.py: the transcription pipeline of main() and the two  *)
(* pure text functions it uses, format_time and segments_to_srt.           *)
(*                                                                         *)
(* Text is a sequence of one-character strings, so that padding, joining   *)
(* and trimming are computed character by character as Python does.        *)
(* A time value (a Python float number of seconds) is represented by its   *)
(* whole number of milliseconds; the values drawn are multiples of 125 ms, *)
(* binary fractions of a second, on which the float arithmetic of          *)
(* format_time is exact.                                                   *)
(***************************************************************************)
EXTENDS Integers, Sequences, FiniteSets, TLC

VARIABLES
    pc,            \* position of main()
    video,         \* the input file as the media prober sees it
    open_handles,  \* VideoFileClip handles currently open
    duration,      \* main's local `duration`
    transcript,    \* main's local `transcript`
    segments,      \* main's local `segments` (the SRT text)
    summary,       \* main's local `summary`
    summary_req,   \* arguments of the generate_summary call
    fs,            \* the two output files
    calls,         \* collaborator calls and file writes, in order
    failure,       \* the exception raised in this run, if any
    fmt_arg,       \* argument of a format_time call
    fmt_ret,       \* its result
    srt_arg,       \* argument of a segments_to_srt call
    srt_ret        \* its result

vars == <<pc, video, open_handles, duration, transcript, segments, summary,
          summary_req, fs, calls, failure, fmt_arg, fmt_ret, srt_arg, srt_ret>>

pipeline_vars == <<pc, video, open_handles, duration, transcript, segments,
                   summary, summary_req, fs, calls, failure>>

fmt_vars == <<fmt_arg, fmt_ret>>

srt_vars == <<srt_arg, srt_ret>>

----------------------------------------------------------------------------
(* Bounds of the model *)

MaxSegments == 2

MaxHours == 100

(* Program constants *)

SecondsPerHour == 3600

SecondsPerMinute == 60

MillisPerSecond == 1000

FieldWidth == 2

MilliWidth == 3

----------------------------------------------------------------------------
(* Python text primitives *)

NL == "\n"

Whitespace == {" ", NL, "\t"}

DigitChars == <<"0", "1", "2", "3", "4", "5", "6", "7", "8", "9">>

IsDigit(c) == \E d \in 1..10 : DigitChars[d] = c

RECURSIVE Digits(_)
Digits(n) ==
    IF n < 10 THEN <<DigitChars[n + 1]>>
    ELSE Digits(n \div 10) \o <<DigitChars[(n % 10) + 1]>>

\* str(n) of an int
Str(n) == IF n < 0 THEN <<"-">> \o Digits(-n) ELSE Digits(n)

RECURSIVE LeftZeros(_, _)
LeftZeros(s, w) == IF Len(s) >= w THEN s ELSE LeftZeros(<<"0">> \o s, w)

\* f"{n:0wd}": the sign counts in the width, zeros go after it
ZeroPad(n, w) ==
    IF n < 0 THEN <<"-">> \o LeftZeros(Digits(-n), w - 1)
    ELSE LeftZeros(Digits(n), w)

RECURSIVE LStrip(_)
LStrip(s) ==
    IF s # <<>> /\ Head(s) \in Whitespace THEN LStrip(Tail(s)) ELSE s

RECURSIVE RStrip(_)
RStrip(s) ==
    IF s # <<>> /\ s[Len(s)] \in Whitespace
    THEN RStrip(SubSeq(s, 1, Len(s) - 1))
    ELSE s

\* str.strip()
Strip(s) == RStrip(LStrip(s))

RECURSIVE Join(_, _)
\* sep.join(lines)
Join(sep, lines) ==
    IF lines = <<>> THEN <<>>
    ELSE IF Len(lines) = 1 THEN lines[1]
    ELSE lines[1] \o sep \o Join(sep, Tail(lines))

----------------------------------------------------------------------------
(* format_time, src/main.py:138-143 *)

format_time(seconds) ==
    LET hours        == seconds \div (SecondsPerHour * MillisPerSecond)
        remainder    == seconds % (SecondsPerHour * MillisPerSecond)
        minutes      == remainder \div (SecondsPerMinute * MillisPerSecond)
        secs         == remainder % (SecondsPerMinute * MillisPerSecond)
        whole        == secs \div MillisPerSecond
        milliseconds == secs - whole * MillisPerSecond
    IN  ZeroPad(hours, FieldWidth) \o <<":">> \o ZeroPad(minutes, FieldWidth)
        \o <<":">> \o ZeroPad(whole, FieldWidth) \o <<",">>
        \o ZeroPad(milliseconds, MilliWidth)

----------------------------------------------------------------------------
(* segments_to_srt, src/main.py:104-135 *)

Arrow == <<" ", "-", "-", ">", " ">>

RECURSIVE srt_text_skipping(_, _)
\* as srt_text, but a segment whose trimmed text is empty gets no block
srt_text_skipping(segs, i) ==
    IF i >= Len(segs) THEN <<>>
    ELSE LET segment    == segs[i + 1]
             srt_index  == i + 1
             start_time == format_time(segment.start)
             end_time   == format_time(segment.end)
         IN  (IF Strip(segment.text) = <<>> THEN <<>>
              ELSE << Str(srt_index),
                      start_time \o Arrow \o end_time,
                      Strip(segment.text),
                      <<>> >>)
             \o srt_text_skipping(segs, i + 1)

RECURSIVE srt_text(_, _)
\* the list srt_text after the loop has run from position i (enumerate is 0-based)
srt_text(segs, i) ==
    IF i >= Len(segs) THEN <<>>
    ELSE LET segment    == segs[i + 1]
             srt_index  == i + 1
             start_time == format_time(segment.start)
             end_time   == format_time(segment.end)
         IN  << Str(srt_index),
                start_time \o Arrow \o end_time,
                Strip(segment.text),
                <<>> >>
             \o srt_text(segs, i + 1)

segments_to_srt(segs) == Join(<<NL>>, srt_text(segs, 0))

----------------------------------------------------------------------------
(* Values the inputs are drawn from *)

Millis(h, m, s, f) ==
    ((h * SecondsPerMinute + m) * SecondsPerMinute + s) * MillisPerSecond + f

FmtHours == {0, 1, MaxHours - 1, MaxHours}

NonNegativeTimes ==
    { Millis(h, m, s, f) : h \in FmtHours, m \in {0, 1, 59}, s \in {0, 1, 59},
                           f \in {0, 125, 500, 875} }

NegativeTimes == { 0 - t : t \in NonNegativeTimes \ {0} }

TimeValues == NonNegativeTimes \cup NegativeTimes

Hello == <<"H", "e", "l", "l", "o">>

SegmentTexts ==
    { Hello, <<" ", "H", "i", " ", "y", "o", "u", NL>>, <<" ", " ">>,
      <<"a", NL, "b">> }

SegmentSpans ==
    { <<0, 1250>>, <<1250, Millis(1, 1, 1, 500)>>,
      <<Millis(1, 1, 1, 500), Millis(MaxHours - 1, 59, 59, 875)>> }

Segments ==
    { [start |-> sp[1], end |-> sp[2], text |-> t] :
        sp \in SegmentSpans, t \in SegmentTexts }

SeqsUpTo(S, n) == UNION { [1..k -> S] : k \in 0..n }

SegmentLists == SeqsUpTo(Segments, MaxSegments)

Pending == [status |-> "pending", value |-> <<>>]

Returned(v) == [status |-> "returned", value |-> v]

VideoDurations == { Millis(0, 2, 30, 0), Millis(0, 0, 59, 500), Millis(1, 1, 1, 0) }

Videos ==
    [has_duration : BOOLEAN, duration : VideoDurations, audio : BOOLEAN]

Responses ==
    { <<" ", "0", ":", "0", "0", " ", "-", " ", "I", "n", "t", "r", "o", NL>>,
      <<"0", ":", "0", "0">>, <<>> }

SegmentsFile == "segments.srt"

TimestampsFile == "timestamps.txt"

Absent == [exists |-> FALSE, content |-> <<>>]

Stale == [exists |-> TRUE, content |-> <<"o", "l", "d">>]

File(text) == [exists |-> TRUE, content |-> text]

Unassigned == [kind |-> "unassigned", value |-> <<>>]

PyNone == [kind |-> "None", value |-> <<>>]

Value(v) == [kind |-> "value", value |-> v]

----------------------------------------------------------------------------
(* get_video_duration, src/main.py:53-72 *)

coarse_duration(d) ==
    LET hours   == d \div (SecondsPerHour * MillisPerSecond)
        minutes == (d % (SecondsPerHour * MillisPerSecond))
                       \div (SecondsPerMinute * MillisPerSecond)
        secs    == (d % (SecondsPerMinute * MillisPerSecond)) \div MillisPerSecond
    IN  Str(hours) \o <<":">> \o Str(minutes) \o <<":">> \o Str(secs)

\* main line 260-261: any exception ends the run through exit(...)
Raise(stage) ==
    /\ pc' = "Failed"
    /\ failure' = stage

\* line 67: VideoFileClip(video_path) is entered, or raises
OpenForDuration ==
    /\ pc = "Start"
    /\ calls' = Append(calls, "probe")
    /\ \E ok \in BOOLEAN :
          IF ok
          THEN /\ open_handles' = open_handles \cup {"get_video_duration"}
               /\ pc' = "Probing"
               /\ UNCHANGED failure
          ELSE /\ Raise("probe")
               /\ UNCHANGED open_handles
    /\ UNCHANGED <<video, duration, transcript, segments, summary, summary_req, fs>>
    /\ UNCHANGED <<fmt_vars, srt_vars>>

\* lines 68-72: the body of the with block and its exit
ReadDuration ==
    /\ pc = "Probing"
    /\ open_handles' = open_handles \ {"get_video_duration"}
    /\ IF video.has_duration
       THEN /\ duration' = Value(coarse_duration(video.duration))
            /\ pc' = "DurationResolved"
            /\ UNCHANGED failure
       ELSE /\ Raise("probe")
            /\ UNCHANGED duration
    /\ UNCHANGED <<video, transcript, segments, summary, summary_req, fs, calls>>
    /\ UNCHANGED <<fmt_vars, srt_vars>>

----------------------------------------------------------------------------
(* transcribe, src/main.py:75-101 *)

\* as ReturnNone, but the handlers return an empty result instead of None
ReturnNone_EmptyResult(stage) ==
    /\ transcript' = Value(<<>>)
    /\ failure' = stage
    /\ pc' = "TranscribeReturned"

\* lines 96-101: both handlers print the error and return None
ReturnNone(stage) ==
    /\ transcript' = PyNone
    /\ failure' = stage
    /\ pc' = "TranscribeReturned"

\* line 90: VideoFileClip(video_path) is entered, or raises
OpenForAudio ==
    /\ pc = "DurationResolved"
    /\ calls' = Append(calls, "audio_check")
    /\ \E ok \in BOOLEAN :
          IF ok
          THEN /\ open_handles' = open_handles \cup {"transcribe"}
               /\ pc' = "Gate"
               /\ UNCHANGED <<transcript, failure>>
          ELSE /\ ReturnNone("audio_check")
               /\ UNCHANGED open_handles
    /\ UNCHANGED <<video, duration, segments, summary, summary_req, fs>>
    /\ UNCHANGED <<fmt_vars, srt_vars>>

\* as CheckAudio, but a missing audio stream is not raised
CheckAudio_NoRaise ==
    /\ pc = "Gate"
    /\ open_handles' = open_handles \ {"transcribe"}
    /\ pc' = "GateChecked"
    /\ UNCHANGED <<transcript, failure>>
    /\ UNCHANGED <<video, duration, segments, summary, summary_req, fs, calls>>
    /\ UNCHANGED <<fmt_vars, srt_vars>>

\* as CheckAudio, but without the with block: the raise skips video.close()
CheckAudio_Leaks ==
    /\ pc = "Gate"
    /\ IF video.audio
       THEN /\ open_handles' = open_handles \ {"transcribe"}
            /\ pc' = "GateChecked"
            /\ UNCHANGED <<transcript, failure>>
       ELSE /\ ReturnNone("no_audio")
            /\ UNCHANGED open_handles
    /\ UNCHANGED <<video, duration, segments, summary, summary_req, fs, calls>>
    /\ UNCHANGED <<fmt_vars, srt_vars>>

\* lines 91-92: the audio check and the exit of the with block
CheckAudio ==
    /\ pc = "Gate"
    /\ open_handles' = open_handles \ {"transcribe"}
    /\ IF video.audio
       THEN /\ pc' = "GateChecked"
            /\ UNCHANGED <<transcript, failure>>
       ELSE ReturnNone("no_audio")
    /\ UNCHANGED <<video, duration, segments, summary, summary_req, fs, calls>>
    /\ UNCHANGED <<fmt_vars, srt_vars>>

\* lines 94-95: whisper_model.transcribe returns a result, or raises
WhisperTranscribe ==
    /\ pc = "GateChecked"
    /\ calls' = Append(calls, "engine")
    /\ \/ \E segs \in SegmentLists :
             /\ transcript' = Value(segs)
             /\ pc' = "TranscribeReturned"
             /\ UNCHANGED failure
       \/ ReturnNone("engine")
    /\ UNCHANGED <<video, open_handles, duration, segments, summary, summary_req, fs>>
    /\ UNCHANGED <<fmt_vars, srt_vars>>

----------------------------------------------------------------------------
(* main, src/main.py:227-261 *)

\* as CheckTranscript, but a None transcript is not raised
CheckTranscript_Continues ==
    /\ pc = "TranscribeReturned"
    /\ pc' = "Transcribed"
    /\ UNCHANGED <<video, open_handles, duration, transcript, segments, summary,
                   summary_req, fs, calls, failure>>
    /\ UNCHANGED <<fmt_vars, srt_vars>>

\* as CheckTranscript, but an empty segment list is raised like None
CheckTranscript_EmptyAborts ==
    /\ pc = "TranscribeReturned"
    /\ IF transcript = PyNone \/ transcript.value = <<>>
       THEN pc' = "Failed"
       ELSE pc' = "Transcribed"
    /\ UNCHANGED <<video, open_handles, duration, transcript, segments, summary,
                   summary_req, fs, calls, failure>>
    /\ UNCHANGED <<fmt_vars, srt_vars>>

\* lines 243-245
CheckTranscript ==
    /\ pc = "TranscribeReturned"
    /\ IF transcript = PyNone
       THEN /\ pc' = "Failed"
            /\ UNCHANGED failure
       ELSE /\ pc' = "Transcribed"
            /\ UNCHANGED failure
    /\ UNCHANGED <<video, open_handles, duration, transcript, segments, summary,
                   summary_req, fs, calls>>
    /\ UNCHANGED <<fmt_vars, srt_vars>>

\* line 247
BuildDocument ==
    /\ pc = "Transcribed"
    /\ segments' = Value(segments_to_srt(transcript.value))
    /\ pc' = "DocumentBuilt"
    /\ UNCHANGED <<video, open_handles, duration, transcript, summary, summary_req,
                   fs, calls, failure>>
    /\ UNCHANGED <<fmt_vars, srt_vars>>

\* with open(name, "w") as f: f.write(text)
WriteFile(name, text, next) ==
    /\ calls' = Append(calls, name)
    /\ \E outcome \in {"written", "open_raises", "write_raises"} :
          CASE outcome = "written" ->
                 /\ fs' = [fs EXCEPT ![name] = File(text)]
                 /\ pc' = next
                 /\ UNCHANGED failure
            [] outcome = "open_raises" ->
                 /\ UNCHANGED fs
                 /\ Raise("write")
            [] outcome = "write_raises" ->
                 /\ fs' = [fs EXCEPT ![name] = File(<<>>)]
                 /\ Raise("write")

\* lines 249-252
WriteSegments ==
    /\ pc = "DocumentBuilt"
    /\ WriteFile(SegmentsFile, segments.value, "SegmentsWritten")
    /\ UNCHANGED <<video, open_handles, duration, transcript, segments, summary,
                   summary_req>>
    /\ UNCHANGED <<fmt_vars, srt_vars>>

\* as GenerateSummary, but timestamps.txt is opened for writing before the call
GenerateSummary_OpensFirst ==
    /\ pc = "SegmentsWritten"
    /\ calls' = Append(calls, "summary")
    /\ summary_req' = Value([transcript |-> segments.value, length |-> duration.value])
    /\ \/ \E response \in Responses :
             /\ summary' = Value(Strip(response))
             /\ pc' = "SummarySynthesized"
             /\ UNCHANGED <<failure, fs>>
       \/ /\ Raise("summary")
          /\ fs' = [fs EXCEPT ![TimestampsFile] = File(<<>>)]
          /\ UNCHANGED summary
    /\ UNCHANGED <<video, open_handles, duration, transcript, segments>>
    /\ UNCHANGED <<fmt_vars, srt_vars>>

\* as GenerateSummary, but called before segments.srt is written
GenerateSummary_BeforeWrite ==
    /\ pc = "DocumentBuilt"
    /\ calls' = Append(calls, "summary")
    /\ summary_req' = Value([transcript |-> segments.value, length |-> duration.value])
    /\ \/ \E response \in Responses :
             /\ summary' = Value(Strip(response))
             /\ pc' = "SummarySynthesized"
             /\ UNCHANGED failure
       \/ /\ Raise("summary")
          /\ UNCHANGED summary
    /\ UNCHANGED <<video, open_handles, duration, transcript, segments, fs>>
    /\ UNCHANGED <<fmt_vars, srt_vars>>

\* line 253 and generate_summary, lines 165-224
GenerateSummary ==
    /\ pc = "SegmentsWritten"
    /\ calls' = Append(calls, "summary")
    /\ summary_req' = Value([transcript |-> segments.value, length |-> duration.value])
    /\ \/ \E response \in Responses :
             /\ summary' = Value(Strip(response))
             /\ pc' = "SummarySynthesized"
             /\ UNCHANGED failure
       \/ /\ Raise("summary")
          /\ UNCHANGED summary
    /\ UNCHANGED <<video, open_handles, duration, transcript, segments, fs>>
    /\ UNCHANGED <<fmt_vars, srt_vars>>

\* lines 256-259
WriteTimestamps ==
    /\ pc = "SummarySynthesized"
    /\ WriteFile(TimestampsFile, summary.value, "Done")
    /\ UNCHANGED <<video, open_handles, duration, transcript, segments, summary,
                   summary_req>>
    /\ UNCHANGED <<fmt_vars, srt_vars>>

----------------------------------------------------------------------------
(* The run of main() *)

Init ==
    /\ pc = "Start"
    /\ video \in Videos
    /\ open_handles = {}
    /\ duration = Unassigned
    /\ transcript = Unassigned
    /\ segments = Unassigned
    /\ summary = Unassigned
    /\ summary_req = Unassigned
    /\ fs \in [{SegmentsFile, TimestampsFile} -> {Absent, Stale}]
    /\ calls = <<>>
    /\ failure = "none"
    /\ fmt_arg = 0
    /\ fmt_ret = Pending
    /\ srt_arg = <<>>
    /\ srt_ret = Pending

Next ==
    \/ OpenForDuration
    \/ ReadDuration
    \/ OpenForAudio
    \/ CheckAudio
    \/ WhisperTranscribe
    \/ CheckTranscript
    \/ BuildDocument
    \/ WriteSegments
    \/ GenerateSummary
    \/ WriteTimestamps

Spec == Init /\ [][Next]_vars

\* main is sequential: once transcribe has returned, line 244 is executed
LiveSpec == Spec /\ WF_vars(CheckTranscript)

----------------------------------------------------------------------------
(* format_time and segments_to_srt called on their own *)

NoRun ==
    /\ pc = "Start"
    /\ video = [has_duration |-> TRUE, duration |-> Millis(0, 2, 30, 0), audio |-> TRUE]
    /\ open_handles = {}
    /\ duration = Unassigned
    /\ transcript = Unassigned
    /\ segments = Unassigned
    /\ summary = Unassigned
    /\ summary_req = Unassigned
    /\ fs = [f \in {SegmentsFile, TimestampsFile} |-> Absent]
    /\ calls = <<>>
    /\ failure = "none"

FmtInit ==
    /\ NoRun
    /\ fmt_arg \in TimeValues
    /\ fmt_ret = Pending
    /\ srt_arg = <<>>
    /\ srt_ret = Pending

FormatTime ==
    /\ fmt_ret = Pending
    /\ fmt_ret' = Returned(format_time(fmt_arg))
    /\ UNCHANGED <<fmt_arg, srt_vars, pipeline_vars>>

FmtSpec == FmtInit /\ [][FormatTime]_vars

SrtInit ==
    /\ NoRun
    /\ fmt_arg = 0
    /\ fmt_ret = Pending
    /\ srt_arg \in SegmentLists
    /\ srt_ret = Pending

SegmentsToSrt ==
    /\ srt_ret = Pending
    /\ srt_ret' = Returned(segments_to_srt(srt_arg))
    /\ UNCHANGED <<srt_arg, fmt_vars, pipeline_vars>>

SrtSpec == SrtInit /\ [][SegmentsToSrt]_vars

----------------------------------------------------------------------------
(* Vocabulary of the properties *)

InCalls(c) == \E i \in 1..Len(calls) : calls[i] = c

\* every call b in the log has a call a earlier in the log
Before(a, b) ==
    \A j \in 1..Len(calls) : calls[j] = b => \E i \in 1..(j - 1) : calls[i] = a

Untouched(name) == fs[name] \in {Absent, Stale}

ProbeFailures == {"probe"}

GateFailures == {"audio_check", "no_audio"}

TranscribeFailures == GateFailures \cup {"engine"}

\* the call during which each failure is raised
FailingCalls(f) ==
    CASE f = "probe" -> {"probe"}
      [] f \in GateFailures -> {"audio_check"}
      [] f = "engine" -> {"engine"}
      [] f = "summary" -> {"summary"}
      [] f = "write" -> {SegmentsFile, TimestampsFile}
      [] OTHER -> {}

\* the lines of a text, as text.split("\n"): line j lies between the
\* (j-1)-th and the j-th newline
Lines(s) ==
    LET nl     == { i \in 1..Len(s) : s[i] = NL }
        k      == Cardinality(nl)
        Nth(j) == CHOOSE i \in nl : Cardinality({ x \in nl : x < i }) = j - 1
    IN  [ j \in 1..(k + 1) |->
            SubSeq(s, IF j = 1 THEN 1 ELSE Nth(j - 1) + 1,
                      IF j = k + 1 THEN Len(s) ELSE Nth(j) - 1) ]

RECURSIVE Concat(_)
Concat(texts) ==
    IF texts = <<>> THEN <<>> ELSE Head(texts) \o Concat(Tail(texts))

HasNewline(s) == \E i \in 1..Len(s) : s[i] = NL

DigitValue(c) == (CHOOSE d \in 1..10 : DigitChars[d] = c) - 1

RECURSIVE ToNat(_)
ToNat(s) ==
    IF s = <<>> THEN 0
    ELSE ToNat(SubSeq(s, 1, Len(s) - 1)) * 10 + DigitValue(s[Len(s)])

\* dd:dd:dd,ddd
TimeCodeShape(s) ==
    /\ Len(s) = 12
    /\ \A i \in {1, 2, 4, 5, 7, 8, 10, 11, 12} : IsDigit(s[i])
    /\ s[3] = ":"
    /\ s[6] = ":"
    /\ s[9] = ","

----------------------------------------------------------------------------
(* Properties of the run of main(), checked under Spec *)

\* C1: the transcription engine is invoked only after the duration probe has
\* succeeded and the audio check has found an audio stream; when the probe or
\* the audio check fails, the engine is never invoked and the run does not
\* reach Done.
C1_EngineOnlyAfterGate ==
    /\ InCalls("engine") =>
         /\ duration.kind = "value"
         /\ video.has_duration
         /\ video.audio
         /\ Before("probe", "audio_check")
         /\ Before("audio_check", "engine")
         /\ open_handles = {}
    /\ failure \in ProbeFailures \cup GateFailures =>
         /\ ~InCalls("engine")
         /\ pc \in {"TranscribeReturned", "Failed"}
    /\ ~video.audio => ~InCalls("engine")

C1_Witness == InCalls("engine") /\ pc = "TranscribeReturned"

\* C2: the subtitle file is written, and the summarization service called,
\* only when transcribe returned a transcript; a failed transcription leaves
\* both undone and the run in failure.
C2_NoOutputWithoutTranscript ==
    /\ (InCalls(SegmentsFile) \/ InCalls("summary") \/ ~Untouched(SegmentsFile)) =>
         /\ transcript.kind = "value"
         /\ InCalls("engine")
         /\ failure \notin TranscribeFailures
    /\ (transcript = PyNone \/ failure \in TranscribeFailures) =>
         /\ pc \in {"TranscribeReturned", "Failed"}
         /\ segments = Unassigned
         /\ Untouched(SegmentsFile)
         /\ Untouched(TimestampsFile)

C2_Witness == transcript = PyNone /\ failure = "engine" /\ pc = "Failed"

\* C3: when the summarization service fails, the run is in failure,
\* timestamps.txt has been neither created nor written, and segments.srt
\* holds the complete SRT text of the transcript.
C3_SummaryFailureKeepsSubtitles ==
    failure = "summary" =>
        /\ pc = "Failed"
        /\ ~InCalls(TimestampsFile)
        /\ Untouched(TimestampsFile)
        /\ summary = Unassigned
        /\ fs[SegmentsFile] = File(segments_to_srt(transcript.value))
        /\ segments = Value(segments_to_srt(transcript.value))

C3_Witness ==
    /\ failure = "summary"
    /\ Len(transcript.value) = MaxSegments
    /\ fs[SegmentsFile].content # <<>>

\* C4 as stated: the collaborators are called in stage order and no output
\* file is written before the summary has been synthesized.
C4_NoWriteBeforeSummary ==
    /\ Before("probe", "audio_check")
    /\ Before("audio_check", "engine")
    /\ Before("engine", "summary")
    /\ Before("summary", SegmentsFile)
    /\ Before("summary", TimestampsFile)
    /\ (InCalls(SegmentsFile) \/ InCalls(TimestampsFile)) => summary.kind = "value"

\* C4 amended: the run goes probe, audio check, engine, document built,
\* segments.srt written, summary synthesized, timestamps.txt written, Done;
\* segments.srt is written after the document is built and before the
\* summarization service is called, timestamps.txt only after the summary
\* has been synthesized.
C4_StageOrder ==
    /\ Before("probe", "audio_check")
    /\ Before("audio_check", "engine")
    /\ Before("engine", SegmentsFile)
    /\ Before(SegmentsFile, "summary")
    /\ Before("summary", TimestampsFile)
    /\ InCalls(SegmentsFile) => segments.kind = "value"
    /\ InCalls(TimestampsFile) => summary.kind = "value"
    /\ pc = "SegmentsWritten" =>
         /\ calls = <<"probe", "audio_check", "engine", SegmentsFile>>
         /\ fs[SegmentsFile] = File(segments.value)
         /\ summary = Unassigned
    /\ pc = "Done" =>
         /\ calls = <<"probe", "audio_check", "engine", SegmentsFile, "summary",
                      TimestampsFile>>
         /\ fs[SegmentsFile] = File(segments.value)
         /\ fs[TimestampsFile] = File(summary.value)

C4_Witness == pc = "Done" /\ fs[SegmentsFile].content # <<>>

\* C8, the states: no call is made twice; once a failure is raised the
\* failing call is the last one of the run, the files it had not written
\* stay untouched, and the run is on its way to Failed, never Done.
C8_State ==
    /\ \A i, j \in 1..Len(calls) : calls[i] = calls[j] => i = j
    /\ failure # "none" =>
         /\ calls # <<>>
         /\ calls[Len(calls)] \in FailingCalls(failure)
         /\ pc \in {"TranscribeReturned", "Failed"}
         /\ pc = "TranscribeReturned" => transcript = PyNone
    /\ failure \in ProbeFailures \cup TranscribeFailures =>
         Untouched(SegmentsFile) /\ Untouched(TimestampsFile)
    /\ failure = "summary" => Untouched(TimestampsFile)
    /\ pc = "Done" => failure = "none"

\* C8, the steps: a step taken after a failure makes no call, writes no
\* file, opens no handle, and ends the run in Failed.
C8_Step ==
    failure # "none" =>
        /\ calls' = calls
        /\ fs' = fs
        /\ open_handles' = open_handles
        /\ failure' = failure
        /\ pc' = "Failed"

\* C8: a failure of any stage is final, the run ends in Failed, and
\* nothing is retried.
C8_FailureIsFinal ==
    /\ [](C8_State)
    /\ [][C8_Step]_vars
    /\ (failure # "none") ~> (pc = "Failed")

C8_Witness == pc = "Failed" /\ failure = "no_audio" /\ Len(calls) = 2

\* C9: a video handle is open only inside the with block of the stage that
\* opened it; when a stage has ended, by return or by exception, and in
\* Done and Failed, no handle is open.
C9_HandlesReleased ==
    /\ pc = "Probing" => open_handles = {"get_video_duration"}
    /\ pc = "Gate" => open_handles = {"transcribe"}
    /\ pc \notin {"Probing", "Gate"} => open_handles = {}

C9_Witness ==
    /\ pc = "TranscribeReturned"
    /\ failure = "no_audio"
    /\ open_handles = {}

\* C10: an empty segment list is a transcript: the run is not aborted at
\* the transcription stage, segments.srt is written empty, and the
\* summarization service is called with the empty text and the duration.
C10_EmptyTranscriptProceeds ==
    transcript = Value(<<>>) =>
        /\ failure \notin TranscribeFailures
        /\ pc = "Failed" => failure \in {"write", "summary"}
        /\ segments.kind = "value" => segments.value = <<>>
        /\ pc = "SegmentsWritten" => fs[SegmentsFile] = File(<<>>)
        /\ InCalls("summary") =>
             /\ fs[SegmentsFile] = File(<<>>)
             /\ summary_req =
                  Value([transcript |-> <<>>,
                         length |-> coarse_duration(video.duration)])

C10_Witness ==
    /\ transcript = Value(<<>>)
    /\ pc = "SummarySynthesized"
    /\ summary_req.value.transcript = <<>>

----------------------------------------------------------------------------
(* Properties of format_time, checked under FmtSpec *)

\* C5: for a non-negative time, format_time returns dd:dd:dd,ddd whose
\* fields are the hours, the minutes in 0..59, the seconds in 0..59 and the
\* milliseconds in 0..999 of the input.
C5_TimeCodeShape ==
    (fmt_ret.status = "returned" /\ fmt_arg >= 0) =>
        LET code == fmt_ret.value
        IN  /\ TimeCodeShape(code)
            /\ ToNat(SubSeq(code, 1, 2)) = fmt_arg \div 3600000
            /\ ToNat(SubSeq(code, 4, 5)) = (fmt_arg \div 60000) % 60
            /\ ToNat(SubSeq(code, 7, 8)) = (fmt_arg \div 1000) % 60
            /\ ToNat(SubSeq(code, 10, 12)) = fmt_arg % 1000

\* C7: format_time never returns a time code for a negative input.
C7_NegativeRejected == fmt_arg < 0 => fmt_ret.status # "returned"

----------------------------------------------------------------------------
(* Properties of segments_to_srt, checked under SrtSpec *)

\* the block of the i-th segment, followed by one empty line
C6_Block(segs, i) ==
    Str(i) \o <<NL>>
      \o format_time(segs[i].start) \o Arrow \o format_time(segs[i].end) \o <<NL>>
      \o Strip(segs[i].text) \o <<NL>>
      \o <<NL>>

\* C6: n segments give n blocks, in input order, none dropped, block i made
\* of the index i, "start --> end", the trimmed text and an empty line (the
\* text ends after the newline of the last block's text); read line by
\* line, the text has four lines per segment; no segment gives the empty
\* text.
C6_OneBlockPerSegment ==
    srt_ret.status = "returned" =>
        LET n   == Len(srt_arg)
            doc == Lines(srt_ret.value)
        IN  /\ n = 0 => srt_ret.value = <<>>
            /\ n > 0 =>
                 srt_ret.value \o <<NL>> =
                     Concat([ i \in 1..n |-> C6_Block(srt_arg, i) ])
            /\ (n > 0 /\ \A i \in 1..n : ~HasNewline(Strip(srt_arg[i].text))) =>
                 /\ Len(doc) = 4 * n
                 /\ \A i \in 1..n :
                      /\ doc[4 * i - 3] = Str(i)
                      /\ doc[4 * i - 2] =
                           format_time(srt_arg[i].start) \o Arrow
                             \o format_time(srt_arg[i].end)
                      /\ doc[4 * i - 1] = Strip(srt_arg[i].text)
                      /\ doc[4 * i] = <<>>

C6_Witness ==
    /\ srt_ret.status = "returned"
    /\ Len(srt_arg) = MaxSegments
    /\ Strip(srt_arg[1].text) = <<>>
    /\ Strip(srt_arg[MaxSegments].text) # <<>>

====
